---- MODULE Spec2Model ----
(***************************************************************************)
(* rcontrol/core.py: the asynchronous task lifecycle.                      *)
(*                                                                         *)
(* One BaseSession with its task registry (_tasks, guarded by _lock), the  *)
(* StreamReadersExec tasks started by execute() and the ThreadableTask     *)
(* tasks started by copy_file() or constructed directly, the execution     *)
(* unit of each task (the stream reader of a StreamReadersExec, the worker *)
(* thread of a ThreadableTask) and the calls of wait() made on the tasks.  *)
(* Every thread advances one step at a time; a step is one lock            *)
(* acquisition, one critical section, or one run of lock-free code.        *)
(***************************************************************************)
EXTENDS Integers, Sequences, FiniteSets, TLC

\* ------------------------------------------------------------------ bounds

\* SpecExecute: number of StreamReadersExec tasks started on the session.
ExecTasks == 3
\* SpecCopy: number of ThreadableTask tasks constructed.
CopyTasks == 2
\* SpecStream: number of StreamReadersExec tasks started on the session.
StreamTasks == 1
\* Spec: number of tasks constructed, of either class.
MaxTasks == 1
\* SpecStream and Spec: number of threads that call wait().
NumWaiters == 1
\* SpecRegistry: number of tasks constructed, of either class, and number of
\* direct _unregister_task calls.
RegTasks == 2
MaxUnregisters == 2
\* SpecSnapshot: number of StreamReadersExec tasks started on the session,
\* and number of edits made to the lists returned by tasks().
SnapTasks == 2
MaxEdits == 2
\* SpecCallback: number of StreamReadersExec tasks started on the session.
CbTasks == 3
\* SpecLock: number of StreamReadersExec tasks started on the session; the
\* finished callback of each can start one copy_file task.
LockTasks == 1
\* SpecFair: number of ThreadableTask tasks constructed.
FairTasks == 1

Max(S) == CHOOSE n \in S : \A m \in S : m <= n

\* Identities of the StreamReadersExec tasks and of the ThreadableTask tasks.
NumStream == Max({ExecTasks, StreamTasks, MaxTasks, RegTasks, SnapTasks, CbTasks, LockTasks})
NumThread == Max({CopyTasks, MaxTasks, RegTasks, LockTasks, FairTasks})
STasks == 1..NumStream
BTasks == (NumStream + 1)..(NumStream + NumThread)
Tasks == STasks \cup BTasks

\* ------------------------------------------------------------------ values

\* Python's None; optional values are <<>> or <<v>>.
None == <<>>

\* Exit codes a command can end with, and the expected_exit_code arguments.
ExitCodes == {0, 1}
ExpectedExitCodes == {None} \cup {<<c>> : c \in ExitCodes}

\* Exceptions the callable of a ThreadableTask can raise: <<type, message>>.
CallableErrors == {<<"ValueError", "boom">>, <<"IOError", "disk">>}

\* sys.exc_info() for the exception e being handled: (type, value, traceback).
exc_info(e) == <<e[1], e, "traceback">>

\* Threads that call wait() on the tasks.
Waiters == 1..NumWaiters

\* A waiting thread that is in no wait() call.
Idle == [pc |-> "idle", task |-> 0, flag |-> FALSE]

\* Thread identities, for the owner of the lock.
Caller(t) == <<"caller", t>>
Unit(t) == <<"unit", t>>
Direct == <<"direct", 0>>
Observer == <<"observer", 0>>

VARIABLES
    tasks,              \* BaseSession._tasks
    lock,               \* BaseSession._lock: None when free, else its holder
    uncaught,           \* exceptions that escaped into a thread: <<thread, type>>
    cpc,                \* per task: position of the thread constructing it
    unit,               \* per task: state of its reader / worker thread
    expected_exit_code, \* StreamReadersExec.__expected_exit_code
    exit_code,          \* StreamReadersExec.__exit_code
    timed_out,          \* StreamReadersExec.__timed_out
    timeout_fired,      \* per reader: it has detected a timeout
    reported_code,      \* per reader: the exit code it last reported, if any
    has_callback,       \* per task: a finished_callback was given
    callback_calls,     \* per task: the threads that invoked its finished callback
    exception,          \* ThreadableTask.exception
    callable_error,     \* per ThreadableTask: what its callable raised, if anything
    thread_assigned,    \* ThreadableTask.thread has been assigned
    waiter,             \* per waiting thread: its wait() call in progress
    outcomes,           \* per task and raise_if_error: outcomes of finished wait()s
    direct,             \* the thread that calls _unregister_task on tasks it holds
    observer,           \* the thread that calls tasks() and edits the list it got
    cb_snapshot,        \* per StreamReadersExec: tasks() as seen by its finished callback
    cb_child            \* per StreamReadersExec: the task its finished callback started

vars == <<tasks, lock, uncaught, cpc, unit, expected_exit_code, exit_code,
          timed_out, timeout_fired, reported_code, has_callback, callback_calls,
          exception, callable_error, thread_assigned, waiter, outcomes,
          direct, observer, cb_snapshot, cb_child>>

regVars == <<tasks, lock, uncaught>>
streamVars == <<expected_exit_code, exit_code, timed_out, timeout_fired, reported_code>>
waitVars == <<waiter, outcomes>>
taskVars == <<cpc, unit, has_callback, callback_calls>>
threadVars == <<exception, callable_error, thread_assigned>>
callVars == <<direct, observer, cb_snapshot, cb_child>>

\* ------------------------------------------------------------------ Init

\* BaseSession.__init__, before any task is constructed.
Init ==
    /\ tasks = <<>>
    /\ lock = None
    /\ uncaught = {}
    /\ cpc = [t \in Tasks |-> "new"]
    /\ unit = [t \in Tasks |-> "none"]
    /\ expected_exit_code = [t \in STasks |-> None]
    /\ exit_code = [t \in STasks |-> None]
    /\ timed_out = [t \in STasks |-> FALSE]
    /\ timeout_fired = [t \in STasks |-> FALSE]
    /\ reported_code = [t \in STasks |-> None]
    /\ has_callback = [t \in Tasks |-> FALSE]
    /\ callback_calls = [t \in Tasks |-> <<>>]
    /\ exception = [t \in BTasks |-> None]
    /\ callable_error = [t \in BTasks |-> None]
    /\ thread_assigned = [t \in BTasks |-> FALSE]
    /\ waiter = [w \in Waiters |-> Idle]
    /\ outcomes = [t \in Tasks |-> [r \in BOOLEAN |-> {}]]
    /\ direct = [pc |-> "idle", task |-> 0, calls |-> 0, late |-> {}]
    /\ observer = [pc |-> "idle", got |-> FALSE, list |-> [alias |-> FALSE, val |-> <<>>],
                   expect |-> <<>>, edits |-> 0]
    /\ cb_snapshot = [t \in STasks |-> None]
    /\ cb_child = [t \in STasks |-> 0]

\* ------------------------------------------------------------------ registry

\* list.append(task)
list_append(l, t) == Append(l, t)

\* t in l
Contains(l, t) == \E i \in 1..Len(l) : l[i] = t

\* list.pop() in place of list.remove(task): drops the last element.
list_pop(l, t) == SubSeq(l, 1, Len(l) - 1)

\* list.remove(task): drops the first occurrence (the caller has checked
\* that there is one; Python raises ValueError otherwise).
list_remove(l, t) ==
    LET i == CHOOSE k \in 1..Len(l) : l[k] = t /\ \A j \in 1..(k - 1) : l[j] # t
    IN  SubSeq(l, 1, i - 1) \o SubSeq(l, i + 1, Len(l))

\* `with self._lock:` entered by thread th.
acquire(th) ==
    /\ lock = None
    /\ lock' = th

\* BaseSession._register_task, inside the lock: append and release.
register_task(th, t) ==
    /\ lock = th
    /\ tasks' = list_append(tasks, t)
    /\ lock' = None
    /\ UNCHANGED uncaught

\* _unregister_task without the try/except: the ValueError of an absent task
\* escapes to the caller.
unregister_task_Raising(th, t) ==
    /\ lock = th
    /\ tasks' = IF Contains(tasks, t) THEN list_remove(tasks, t) ELSE tasks
    /\ lock' = None
    /\ uncaught' = IF Contains(tasks, t) THEN uncaught
                   ELSE uncaught \cup {<<th, "ValueError">>}

\* BaseSession._unregister_task, inside the lock: remove, the ValueError of
\* an absent task is swallowed, and release.
unregister_task(th, t) ==
    /\ lock = th
    /\ tasks' = IF Contains(tasks, t) THEN list_remove(tasks, t) ELSE tasks
    /\ lock' = None
    /\ UNCHANGED uncaught

\* BaseSession.tasks(): the copy made inside the lock.
tasks_snapshot == tasks

\* A list object a caller holds: the session's own _tasks list when alias is
\* true, else a list of its own with the entries val.
\* `return self._tasks`: the caller is handed the live list.
list_alias(l) == [alias |-> TRUE, val |-> l]

\* self._tasks[:], a new list with the entries of l.
list_copy(l) == [alias |-> FALSE, val |-> l]

\* The entries of the list object o.
list_value(o) == IF o.alias THEN tasks ELSE o.val

\* ------------------------------------------------------------------ StreamReadersExec

\* StreamReadersExec.__init__ reaches self.session._register_task(self) and
\* enters the lock.
ExecuteBegin(t) ==
    /\ cpc[t] = "new"
    /\ acquire(Caller(t))
    /\ cpc' = [cpc EXCEPT ![t] = "register"]
    /\ UNCHANGED <<tasks, uncaught, unit, has_callback, callback_calls>>
    /\ UNCHANGED <<streamVars, threadVars, waitVars>>
    /\ UNCHANGED callVars

\* ... appends itself to the registry and leaves the lock.
ExecuteRegister(t) ==
    /\ t \in STasks
    /\ cpc[t] = "register"
    /\ register_task(Caller(t), t)
    /\ cpc' = [cpc EXCEPT ![t] = "fields"]
    /\ UNCHANGED <<unit, has_callback, callback_calls>>
    /\ UNCHANGED <<streamVars, threadVars, waitVars>>
    /\ UNCHANGED callVars

\* The rest of StreamReadersExec.__init__: the private fields are set, the
\* reader is built with the task's handlers and starts, and is assigned to
\* self._reader; execute() returns the task.
ExecuteInit(t, expected, cb) ==
    /\ cpc[t] = "fields"
    /\ exit_code' = [exit_code EXCEPT ![t] = None]
    /\ expected_exit_code' = [expected_exit_code EXCEPT ![t] = expected]
    /\ timed_out' = [timed_out EXCEPT ![t] = FALSE]
    /\ has_callback' = [has_callback EXCEPT ![t] = cb]
    /\ unit' = [unit EXCEPT ![t] = "running"]
    /\ cpc' = [cpc EXCEPT ![t] = "done"]
    /\ UNCHANGED <<regVars, callback_calls, timeout_fired, reported_code, threadVars, waitVars>>
    /\ UNCHANGED callVars

\* reader.is_alive(): the reader's thread runs until its finished callback
\* has returned.
reader_is_alive(t) ==
    unit[t] \in {"running", "unregister", "callback", "cb_tasks", "cb_copy"}

\* _set_exit_code that keeps the first code it is given.
set_exit_code_KeepFirst(t, c) ==
    exit_code' = [exit_code EXCEPT ![t] = IF @ = None THEN <<c>> ELSE @]

\* StreamReadersExec._set_exit_code
set_exit_code(t, c) ==
    exit_code' = [exit_code EXCEPT ![t] = <<c>>]

\* The command's exit code is captured while the reader runs.
ReaderSetExitCode(t, c) ==
    /\ unit[t] = "running"
    /\ set_exit_code(t, c)
    /\ reported_code' = [reported_code EXCEPT ![t] = <<c>>]
    /\ UNCHANGED <<regVars, taskVars, expected_exit_code, timed_out, timeout_fired>>
    /\ UNCHANGED <<threadVars, waitVars>>
    /\ UNCHANGED callVars

\* StreamReadersExec._on_timeout (the user's timeout callback has no effect
\* on the task).
on_timeout(t) ==
    timed_out' = [timed_out EXCEPT ![t] = TRUE]

\* The reader detects a timeout, at most once and before it finishes.
ReaderTimeout(t) ==
    /\ unit[t] = "running"
    /\ ~timeout_fired[t]
    /\ timeout_fired' = [timeout_fired EXCEPT ![t] = TRUE]
    /\ on_timeout(t)
    /\ UNCHANGED <<regVars, taskVars, expected_exit_code, exit_code, reported_code>>
    /\ UNCHANGED <<threadVars, waitVars>>
    /\ UNCHANGED callVars

\* The reader calls StreamReadersExec._on_finished, which enters the lock of
\* _unregister_task.
OnFinishedBegin(t) ==
    /\ t \in STasks
    /\ unit[t] = "running"
    /\ acquire(Unit(t))
    /\ unit' = [unit EXCEPT ![t] = "unregister"]
    /\ UNCHANGED <<tasks, uncaught, cpc, has_callback, callback_calls>>
    /\ UNCHANGED <<streamVars, threadVars, waitVars>>
    /\ UNCHANGED callVars

\* _on_finished that leaves the unregistration for after the user callback:
\* the task is still in the registry when the callback runs.
on_finished_unregister_Late(t) ==
    /\ lock = Unit(t)
    /\ lock' = None
    /\ UNCHANGED <<tasks, uncaught>>

\* _on_finished whose callback runs inside the `with self._lock:` block of
\* the unregistration.
on_finished_unregister_Locked(t) ==
    /\ lock = Unit(t)
    /\ tasks' = IF Contains(tasks, t) THEN list_remove(tasks, t) ELSE tasks
    /\ UNCHANGED <<lock, uncaught>>

\* _on_finished: self.session._unregister_task(self)
on_finished_unregister(t) == unregister_task(Unit(t), t)

\* ... the task leaves the registry.
OnFinishedUnregister(t) ==
    /\ t \in STasks
    /\ unit[t] = "unregister"
    /\ on_finished_unregister(t)
    /\ unit' = [unit EXCEPT ![t] = "callback"]
    /\ UNCHANGED <<cpc, has_callback, callback_calls>>
    /\ UNCHANGED <<streamVars, threadVars, waitVars>>
    /\ UNCHANGED callVars

\* ... the user's finished callback runs, if there is one, and the reader's
\* thread ends.
OnFinishedCallback(t) ==
    /\ t \in STasks
    /\ unit[t] = "callback"
    /\ callback_calls' =
          IF has_callback[t]
          THEN [callback_calls EXCEPT ![t] = Append(@, Unit(t))]
          ELSE callback_calls
    /\ unit' = [unit EXCEPT ![t] = "dead"]
    /\ UNCHANGED <<regVars, cpc, has_callback>>
    /\ UNCHANGED <<streamVars, threadVars, waitVars>>
    /\ UNCHANGED callVars

\* The user's finished callback is invoked and calls session.tasks(), which
\* enters the lock.
CallbackTasksBegin(t) ==
    /\ t \in STasks
    /\ unit[t] = "callback"
    /\ has_callback[t]
    /\ acquire(Unit(t))
    /\ callback_calls' = [callback_calls EXCEPT ![t] = Append(@, Unit(t))]
    /\ unit' = [unit EXCEPT ![t] = "cb_tasks"]
    /\ UNCHANGED <<tasks, uncaught, cpc, has_callback>>
    /\ UNCHANGED <<streamVars, threadVars, waitVars, callVars>>

\* ... tasks() returns the copy to the callback, the callback returns and
\* the reader's thread ends.
CallbackTasksReturn(t) ==
    /\ t \in STasks
    /\ unit[t] = "cb_tasks"
    /\ lock = Unit(t)
    /\ lock' = None
    /\ cb_snapshot' = [cb_snapshot EXCEPT ![t] = <<tasks_snapshot>>]
    /\ unit' = [unit EXCEPT ![t] = "dead"]
    /\ UNCHANGED <<tasks, uncaught, cpc, has_callback, callback_calls>>
    /\ UNCHANGED <<streamVars, threadVars, waitVars, direct, observer, cb_child>>

\* The user's finished callback is invoked and raises: _on_finished has no
\* handler, the exception leaves it into the reader's thread, which ends.
CallbackRaises(t) ==
    /\ t \in STasks
    /\ unit[t] = "callback"
    /\ has_callback[t]
    /\ callback_calls' = [callback_calls EXCEPT ![t] = Append(@, Unit(t))]
    /\ uncaught' = uncaught \cup {<<Unit(t), "CallbackError">>}
    /\ unit' = [unit EXCEPT ![t] = "dead"]
    /\ UNCHANGED <<tasks, lock, cpc, has_callback>>
    /\ UNCHANGED <<streamVars, threadVars, waitVars, callVars>>

\* The ThreadableTask identities that finished callbacks have taken for the
\* copy_file() calls they make.
Children == {cb_child[t] : t \in STasks} \ {0}

\* The next ThreadableTask of S to construct from a callback.
FreshChild(S) ==
    {u \in S : /\ cpc[u] = "new" /\ u \notin Children
               /\ \A v \in S : v < u => (cpc[v] # "new" \/ v \in Children)}

\* The user's finished callback is invoked and calls session.copy_file(),
\* which is about to construct the ThreadableTask u.
CallbackCopyFile(t, u) ==
    /\ t \in STasks
    /\ unit[t] = "callback"
    /\ has_callback[t]
    /\ cb_child' = [cb_child EXCEPT ![t] = u]
    /\ callback_calls' = [callback_calls EXCEPT ![t] = Append(@, Unit(t))]
    /\ unit' = [unit EXCEPT ![t] = "cb_copy"]
    /\ UNCHANGED <<regVars, cpc, has_callback>>
    /\ UNCHANGED <<streamVars, threadVars, waitVars, direct, observer, cb_snapshot>>

\* ... copy_file has returned the task to the callback, the callback returns
\* and the reader's thread ends.
CallbackCopyReturn(t) ==
    /\ t \in STasks
    /\ unit[t] = "cb_copy"
    /\ cpc[cb_child[t]] = "done"
    /\ unit' = [unit EXCEPT ![t] = "dead"]
    /\ UNCHANGED <<regVars, cpc, has_callback, callback_calls>>
    /\ UNCHANGED <<streamVars, threadVars, waitVars, callVars>>

\* str(exit_code) in the ExitCodeError message.
str(v) == IF v = None THEN "None" ELSE ToString(v[1])

\* error() testing the exit code before the timeout.
exec_error_ExitCodeFirst(t) ==
    IF reader_is_alive(t) THEN None
    ELSE IF expected_exit_code[t] # None /\ exit_code[t] # expected_exit_code[t]
         THEN <<"ExitCodeError", "bad exit code: Got " \o str(exit_code[t])>>
    ELSE IF timed_out[t] THEN <<"TimeoutError", "timeout">>
    ELSE None

\* error() testing the truth value of the expected exit code, so that an
\* expected code of 0 counts as no check.
exec_error_Truthy(t) ==
    IF reader_is_alive(t) THEN None
    ELSE IF timed_out[t] THEN <<"TimeoutError", "timeout">>
    ELSE IF /\ expected_exit_code[t] # None
            /\ expected_exit_code[t] # <<0>>
            /\ exit_code[t] # expected_exit_code[t]
         THEN <<"ExitCodeError", "bad exit code: Got " \o str(exit_code[t])>>
    ELSE None

\* error() without the is_running() test.
exec_error_NoRunningTest(t) ==
    IF timed_out[t] THEN <<"TimeoutError", "timeout">>
    ELSE IF expected_exit_code[t] # None /\ exit_code[t] # expected_exit_code[t]
         THEN <<"ExitCodeError", "bad exit code: Got " \o str(exit_code[t])>>
    ELSE None

\* StreamReadersExec.error
exec_error(t) ==
    IF reader_is_alive(t) THEN None
    ELSE IF timed_out[t] THEN <<"TimeoutError", "timeout">>
    ELSE IF expected_exit_code[t] # None /\ exit_code[t] # expected_exit_code[t]
         THEN <<"ExitCodeError", "bad exit code: Got " \o str(exit_code[t])>>
    ELSE None

\* StreamReadersExec.wait, after the join: <<"raise", e>> or <<"return", v>>.
exec_wait(t, raise_if_error) ==
    IF raise_if_error /\ exec_error(t) # None
    THEN <<"raise", exec_error(t)>>
    ELSE <<"return", exit_code[t]>>

\* ------------------------------------------------------------------ ThreadableTask

\* __init__ without thread.start(): the thread is built and never runs.
ThreadableTaskInit_NoStart(t, cb) ==
    /\ cpc[t] = "new"
    /\ exception' = [exception EXCEPT ![t] = None]
    /\ has_callback' = [has_callback EXCEPT ![t] = cb]
    /\ cpc' = [cpc EXCEPT ![t] = "started"]
    /\ UNCHANGED <<regVars, unit, callback_calls, callable_error, thread_assigned>>
    /\ UNCHANGED <<streamVars, waitVars>>
    /\ UNCHANGED callVars

\* ThreadableTask.__init__ up to thread.start(): the error slot is emptied
\* and the worker thread runs. cb tells whether a finished_callback is given;
\* the callback copy_file gives is the session's _unregister_task.
ThreadableTaskInit(t, cb) ==
    /\ cpc[t] = "new"
    /\ exception' = [exception EXCEPT ![t] = None]
    /\ has_callback' = [has_callback EXCEPT ![t] = cb]
    /\ unit' = [unit EXCEPT ![t] = "running"]
    /\ cpc' = [cpc EXCEPT ![t] = "started"]
    /\ UNCHANGED <<regVars, callback_calls, callable_error, thread_assigned>>
    /\ UNCHANGED <<streamVars, waitVars>>
    /\ UNCHANGED callVars

\* ThreadableTask.__init__: self.thread = thread, and the constructor returns
\* (to copy_file when the task has the callback, else to its caller).
ThreadableTaskAssign(t) ==
    /\ cpc[t] = "started"
    /\ thread_assigned' = [thread_assigned EXCEPT ![t] = TRUE]
    /\ cpc' = [cpc EXCEPT ![t] = IF has_callback[t] THEN "constructed" ELSE "done"]
    /\ UNCHANGED <<regVars, unit, has_callback, callback_calls, exception, callable_error>>
    /\ UNCHANGED <<streamVars, waitVars>>
    /\ UNCHANGED callVars

\* copy_file: self._register_task(task) enters the lock.
CopyFileBegin(t) ==
    /\ cpc[t] = "constructed"
    /\ acquire(Caller(t))
    /\ cpc' = [cpc EXCEPT ![t] = "register"]
    /\ UNCHANGED <<tasks, uncaught, unit, has_callback, callback_calls>>
    /\ UNCHANGED <<streamVars, threadVars, waitVars>>
    /\ UNCHANGED callVars

\* copy_file: the task is appended to the registry and returned.
CopyFileRegister(t) ==
    /\ t \in BTasks
    /\ cpc[t] = "register"
    /\ register_task(Caller(t), t)
    /\ cpc' = [cpc EXCEPT ![t] = "done"]
    /\ UNCHANGED <<unit, has_callback, callback_calls>>
    /\ UNCHANGED <<streamVars, threadVars, waitVars>>
    /\ UNCHANGED callVars

\* wrapper: callable(*args, **kwargs) returns.
CallableReturns(t) ==
    /\ t \in BTasks
    /\ unit[t] = "running"
    /\ unit' = [unit EXCEPT ![t] = "finished"]
    /\ UNCHANGED <<regVars, cpc, has_callback, callback_calls>>
    /\ UNCHANGED <<streamVars, threadVars, waitVars>>
    /\ UNCHANGED callVars

\* wrapper with the callback after the try block instead of in `finally`,
\* and an except clause that re-raises: a raising callable ends the thread
\* without the callback.
CallableRaises_NoFinally(t, e) ==
    /\ t \in BTasks
    /\ unit[t] = "running"
    /\ callable_error' = [callable_error EXCEPT ![t] = e]
    /\ exception' = [exception EXCEPT ![t] = exc_info(e)]
    /\ unit' = [unit EXCEPT ![t] = "dead"]
    /\ UNCHANGED <<regVars, cpc, has_callback, callback_calls, thread_assigned>>
    /\ UNCHANGED <<streamVars, waitVars>>
    /\ UNCHANGED callVars

\* wrapper whose except clause stores nothing before the `finally` block
\* runs the callback.
CallableRaises_NoStore(t, e) ==
    /\ t \in BTasks
    /\ unit[t] = "running"
    /\ callable_error' = [callable_error EXCEPT ![t] = e]
    /\ unit' = [unit EXCEPT ![t] = "finished"]
    /\ UNCHANGED <<regVars, cpc, has_callback, callback_calls, exception, thread_assigned>>
    /\ UNCHANGED <<streamVars, waitVars>>
    /\ UNCHANGED callVars

\* wrapper: the callable raises e and `except BaseException` stores
\* sys.exc_info().
CallableRaises(t, e) ==
    /\ t \in BTasks
    /\ unit[t] = "running"
    /\ callable_error' = [callable_error EXCEPT ![t] = e]
    /\ exception' = [exception EXCEPT ![t] = exc_info(e)]
    /\ unit' = [unit EXCEPT ![t] = "finished"]
    /\ UNCHANGED <<regVars, cpc, has_callback, callback_calls, thread_assigned>>
    /\ UNCHANGED <<streamVars, waitVars>>
    /\ UNCHANGED callVars

\* wrapper, finally: finished_callback(self) is invoked; it is
\* _unregister_task, which enters the lock.
WrapperCallback(t) ==
    /\ t \in BTasks
    /\ unit[t] = "finished"
    /\ has_callback[t]
    /\ acquire(Unit(t))
    /\ callback_calls' = [callback_calls EXCEPT ![t] = Append(@, Unit(t))]
    /\ unit' = [unit EXCEPT ![t] = "unregister"]
    /\ UNCHANGED <<tasks, uncaught, cpc, has_callback>>
    /\ UNCHANGED <<streamVars, threadVars, waitVars>>
    /\ UNCHANGED callVars

\* _unregister_task entering `with self._lock:` a second time inside its own
\* block: the lock is not reentrant and the worker thread blocks for ever.
WrapperUnregister_Reenter(t) ==
    /\ t \in BTasks
    /\ unit[t] = "unregister"
    /\ lock = Unit(t)
    /\ acquire(Unit(t))
    /\ unit' = [unit EXCEPT ![t] = "dead"]
    /\ UNCHANGED <<tasks, uncaught, cpc, has_callback, callback_calls>>
    /\ UNCHANGED <<streamVars, threadVars, waitVars>>
    /\ UNCHANGED callVars

\* ... the callback removes the task from the registry and returns, and the
\* worker thread ends.
WrapperUnregister(t) ==
    /\ t \in BTasks
    /\ unit[t] = "unregister"
    /\ unregister_task(Unit(t), t)
    /\ unit' = [unit EXCEPT ![t] = "dead"]
    /\ UNCHANGED <<cpc, has_callback, callback_calls>>
    /\ UNCHANGED <<streamVars, threadVars, waitVars>>
    /\ UNCHANGED callVars

\* wrapper, finally: there is no finished_callback; the worker thread ends.
WrapperNoCallback(t) ==
    /\ t \in BTasks
    /\ unit[t] = "finished"
    /\ ~has_callback[t]
    /\ unit' = [unit EXCEPT ![t] = "dead"]
    /\ UNCHANGED <<regVars, cpc, has_callback, callback_calls>>
    /\ UNCHANGED <<streamVars, threadVars, waitVars>>
    /\ UNCHANGED callVars

\* self.thread.is_alive(): from thread.start() until wrapper has returned.
thread_is_alive(t) == unit[t] \in {"running", "finished", "unregister"}

\* error() returning a new generic exception built from the message of the
\* stored one.
thread_error_Flattened(t) ==
    IF exception[t] # None THEN <<"Exception", exception[t][2][2]>> ELSE None

\* ThreadableTask.error
thread_error(t) ==
    IF exception[t] # None THEN exception[t][2] ELSE None

\* ThreadableTask.raise_if_error: the stored value is raised as it is.
thread_raise_if_error(t) ==
    IF exception[t] # None THEN <<"raise", exception[t][2]>> ELSE <<"return", None>>

\* ThreadableTask.wait, after the join: raise_if_error raises the stored
\* value; wait itself returns nothing.
thread_wait(t, raise_if_error) ==
    IF raise_if_error /\ exception[t] # None
    THEN <<"raise", exception[t][2]>>
    ELSE <<"return", None>>

\* ------------------------------------------------------------------ Task

\* Task.is_running
is_running(t) ==
    IF t \in STasks THEN reader_is_alive(t) ELSE thread_is_alive(t)

\* Task.error
error(t) ==
    IF t \in STasks THEN exec_error(t) ELSE thread_error(t)

\* What Task.wait(raise_if_error) does once its join is over.
wait_outcome(t, raise_if_error) ==
    IF t \in STasks THEN exec_wait(t, raise_if_error)
    ELSE thread_wait(t, raise_if_error)

\* The task has been returned by execute(), by copy_file() or by the
\* ThreadableTask constructor.
Returned(t) == cpc[t] = "done"

\* wait() without the join.
WaitCall_NoJoin(w, t, raise_if_error) ==
    /\ waiter[w].pc = "idle"
    /\ Returned(t)
    /\ waiter' = [waiter EXCEPT ![w] =
          [pc |-> "check", task |-> t, flag |-> raise_if_error]]
    /\ UNCHANGED <<regVars, taskVars, streamVars, threadVars, outcomes>>
    /\ UNCHANGED callVars

\* wait(raise_if_error): `if is_alive(): join()`.
WaitCall(w, t, raise_if_error) ==
    /\ waiter[w].pc = "idle"
    /\ Returned(t)
    /\ waiter' = [waiter EXCEPT ![w] =
          [pc |-> IF is_running(t) THEN "join" ELSE "check",
           task |-> t, flag |-> raise_if_error]]
    /\ UNCHANGED <<regVars, taskVars, streamVars, threadVars, outcomes>>
    /\ UNCHANGED callVars

\* join() that gives up while the execution unit is still alive.
WaitJoin_GivesUp(w) ==
    /\ waiter[w].pc = "join"
    /\ waiter' = [waiter EXCEPT ![w].pc = "check"]
    /\ UNCHANGED <<regVars, taskVars, streamVars, threadVars, outcomes>>
    /\ UNCHANGED callVars

\* join() returns once the execution unit has ended.
WaitJoin(w) ==
    /\ waiter[w].pc = "join"
    /\ ~is_running(waiter[w].task)
    /\ waiter' = [waiter EXCEPT ![w].pc = "check"]
    /\ UNCHANGED <<regVars, taskVars, streamVars, threadVars, outcomes>>
    /\ UNCHANGED callVars

\* wait: `if raise_if_error: self.raise_if_error()` and the return.
WaitReturn(w) ==
    /\ waiter[w].pc = "check"
    /\ outcomes' = [outcomes EXCEPT ![waiter[w].task][waiter[w].flag] =
          @ \cup {wait_outcome(waiter[w].task, waiter[w].flag)}]
    /\ waiter' = [waiter EXCEPT ![w] = Idle]
    /\ UNCHANGED <<regVars, taskVars, streamVars, threadVars>>
    /\ UNCHANGED callVars

\* ------------------------------------------------------------------ direct calls

\* _register_task(t) has returned.
Registered(t) ==
    IF t \in STasks THEN cpc[t] \in {"fields", "done"}
    ELSE has_callback[t] /\ cpc[t] = "done"

\* A thread that holds the task t calls session._unregister_task(t) and
\* enters the lock.
DirectUnregisterBegin(t) ==
    /\ direct.pc = "idle"
    /\ direct.calls < MaxUnregisters
    /\ Returned(t)
    /\ acquire(Direct)
    /\ direct' = [direct EXCEPT !.pc = "locked", !.task = t]
    /\ UNCHANGED <<tasks, uncaught, taskVars, streamVars, threadVars, waitVars>>
    /\ UNCHANGED <<observer, cb_snapshot, cb_child>>

\* ... and the call returns. late records the tasks that had been registered
\* when a direct call on them returned.
DirectUnregister ==
    /\ direct.pc = "locked"
    /\ unregister_task(Direct, direct.task)
    /\ direct' = [pc |-> "idle", task |-> 0, calls |-> direct.calls + 1,
                  late |-> IF Registered(direct.task)
                           THEN direct.late \cup {direct.task}
                           ELSE direct.late]
    /\ UNCHANGED <<taskVars, streamVars, threadVars, waitVars>>
    /\ UNCHANGED <<observer, cb_snapshot, cb_child>>

\* A thread calls session.tasks() and enters the lock.
TasksBegin ==
    /\ observer.pc = "idle"
    /\ acquire(Observer)
    /\ observer' = [observer EXCEPT !.pc = "locked"]
    /\ UNCHANGED <<tasks, uncaught, taskVars, streamVars, threadVars, waitVars>>
    /\ UNCHANGED <<direct, cb_snapshot, cb_child>>

\* ... and is returned the copy. expect follows what the list it holds must
\* contain: the registry as it was inside the lock, then its own edits.
TasksReturn ==
    /\ observer.pc = "locked"
    /\ lock = Observer
    /\ lock' = None
    /\ observer' = [observer EXCEPT !.pc = "idle", !.got = TRUE,
                                    !.list = list_copy(tasks), !.expect = tasks]
    /\ UNCHANGED <<tasks, uncaught, taskVars, streamVars, threadVars, waitVars>>
    /\ UNCHANGED <<direct, cb_snapshot, cb_child>>

\* The thread appends a task it was returned to the list it got from tasks().
SnapshotAppend(x) ==
    /\ observer.pc = "idle" /\ observer.got
    /\ observer.edits < MaxEdits
    /\ Returned(x)
    /\ IF observer.list.alias
       THEN /\ tasks' = Append(tasks, x)
            /\ observer' = [observer EXCEPT !.expect = Append(@, x), !.edits = @ + 1]
       ELSE /\ tasks' = tasks
            /\ observer' = [observer EXCEPT !.list.val = Append(@, x),
                                            !.expect = Append(@, x), !.edits = @ + 1]
    /\ UNCHANGED <<lock, uncaught, taskVars, streamVars, threadVars, waitVars>>
    /\ UNCHANGED <<direct, cb_snapshot, cb_child>>

\* The thread removes the first entry of the list it got from tasks().
SnapshotRemove ==
    /\ observer.pc = "idle" /\ observer.got
    /\ observer.edits < MaxEdits
    /\ list_value(observer.list) # <<>>
    /\ LET expected == IF observer.expect = <<>> THEN <<>> ELSE Tail(observer.expect)
       IN  IF observer.list.alias
           THEN /\ tasks' = Tail(tasks)
                /\ observer' = [observer EXCEPT !.expect = expected, !.edits = @ + 1]
           ELSE /\ tasks' = tasks
                /\ observer' = [observer EXCEPT !.list.val = Tail(@),
                                                !.expect = expected, !.edits = @ + 1]
    /\ UNCHANGED <<lock, uncaught, taskVars, streamVars, threadVars, waitVars>>
    /\ UNCHANGED <<direct, cb_snapshot, cb_child>>

\* ------------------------------------------------------------------ specifications

\* Number of tasks whose construction has begun.
Begun == Cardinality({t \in Tasks : cpc[t] # "new"})

\* Tasks are numbered in the order in which their construction begins: the
\* next task of S to construct is the least one not begun, while fewer than
\* n tasks exist.
Fresh(S, n) ==
    {t \in S : /\ cpc[t] = "new"
               /\ \A u \in S : u < t => cpc[u] # "new"
               /\ Begun < n}

\* The first n ThreadableTask identities.
Threads(n) == (NumStream + 1)..(NumStream + n)

\* execute(): the StreamReadersExec tasks of S, at most n tasks in all, with
\* the expected exit codes E and finished callbacks given as in Cb, up to the
\* reader's terminal event.
ExecuteNext(S, n, E, Cb) ==
    \/ \E t \in Fresh(S, n) : ExecuteBegin(t)
    \/ \E t \in S : ExecuteRegister(t)
    \/ \E t \in S, e \in E, cb \in Cb : ExecuteInit(t, e, cb)
    \/ \E t \in S : OnFinishedBegin(t)
    \/ \E t \in S : OnFinishedUnregister(t)
    \/ \E t \in S : OnFinishedCallback(t)

\* What the reader reports of the command before it finishes.
ReaderNext(S) ==
    \/ \E t \in S, c \in ExitCodes : ReaderSetExitCode(t, c)
    \/ \E t \in S : ReaderTimeout(t)

\* The ThreadableTask tasks of S, at most n tasks in all: copy_file() where
\* Cb has TRUE, a task without callback where it has FALSE.
ThreadNext(S, n, Cb) ==
    \/ \E t \in Fresh(S, n), cb \in Cb : ThreadableTaskInit(t, cb)
    \/ \E t \in S : ThreadableTaskAssign(t)
    \/ \E t \in S : CopyFileBegin(t)
    \/ \E t \in S : CopyFileRegister(t)
    \/ \E t \in S : CallableReturns(t)
    \/ \E t \in S, e \in CallableErrors : CallableRaises(t, e)
    \/ \E t \in S : WrapperCallback(t)
    \/ \E t \in S : WrapperUnregister(t)
    \/ \E t \in S : WrapperNoCallback(t)

\* wait() calls of the threads W.
WaitNext(W) ==
    \/ \E w \in W, t \in Tasks, r \in BOOLEAN : WaitCall(w, t, r)
    \/ \E w \in W : WaitJoin(w)
    \/ \E w \in W : WaitReturn(w)

\* Tasks of both classes and the threads waiting for them.
Next ==
    \/ ExecuteNext(1..MaxTasks, MaxTasks, ExpectedExitCodes, {TRUE})
    \/ ReaderNext(1..MaxTasks)
    \/ ThreadNext(Threads(MaxTasks), MaxTasks, BOOLEAN)
    \/ WaitNext(Waiters)

Spec == Init /\ [][Next]_vars

\* Concurrent execute() calls on one session, each command running to its end.
NextExecute ==
    ExecuteNext(1..ExecTasks, ExecTasks, {<<0>>}, BOOLEAN)

SpecExecute == Init /\ [][NextExecute]_vars

\* Concurrent copy_file() calls and ThreadableTask constructions.
NextCopy ==
    ThreadNext(Threads(CopyTasks), CopyTasks, BOOLEAN)

SpecCopy == Init /\ [][NextCopy]_vars

\* Commands that end with any exit code, with or without a timeout, and the
\* threads waiting for them.
NextStream ==
    \/ ExecuteNext(1..StreamTasks, StreamTasks, ExpectedExitCodes, {TRUE})
    \/ ReaderNext(1..StreamTasks)
    \/ WaitNext(Waiters)

SpecStream == Init /\ [][NextStream]_vars

\* execute() calls, ThreadableTask objects constructed without callback (they
\* are never registered), and direct _unregister_task calls on the tasks
\* returned.
NextRegistry ==
    \/ ExecuteNext(1..RegTasks, RegTasks, {<<0>>}, {FALSE})
    \/ \E t \in Fresh(Threads(RegTasks), RegTasks) : ThreadableTaskInit(t, FALSE)
    \/ \E t \in Threads(RegTasks) : ThreadableTaskAssign(t)
    \/ \E t \in Threads(RegTasks) : CallableReturns(t)
    \/ \E t \in Threads(RegTasks) : WrapperNoCallback(t)
    \/ \E t \in Tasks : DirectUnregisterBegin(t)
    \/ DirectUnregister

SpecRegistry == Init /\ [][NextRegistry]_vars

\* execute() calls whose commands run to their end, and a thread that calls
\* tasks() and edits the lists it is returned.
NextSnapshot ==
    \/ ExecuteNext(1..SnapTasks, SnapTasks, {<<0>>}, {FALSE})
    \/ TasksBegin
    \/ TasksReturn
    \/ \E x \in 1..SnapTasks : SnapshotAppend(x)
    \/ SnapshotRemove

SpecSnapshot == Init /\ [][NextSnapshot]_vars

\* Commands that run to their end and whose finished callback returns
\* at once, calls tasks(), or raises.
NextCallback ==
    \/ ExecuteNext(1..CbTasks, CbTasks, {<<0>>}, {TRUE})
    \/ \E t \in 1..CbTasks : CallbackTasksBegin(t)
    \/ \E t \in 1..CbTasks : CallbackTasksReturn(t)
    \/ \E t \in 1..CbTasks : CallbackRaises(t)

SpecCallback == Init /\ [][NextCallback]_vars

\* The steps of the threads that use the lock or wait for a task: execute()
\* calls, finished callbacks that return at once, call tasks() or call
\* copy_file(), the copy_file tasks so started, and wait() calls under way.
LockSteps ==
    \/ ExecuteNext(1..LockTasks, LockTasks, {<<0>>}, {TRUE})
    \/ \E t \in 1..LockTasks : CallbackTasksBegin(t)
    \/ \E t \in 1..LockTasks : CallbackTasksReturn(t)
    \/ \E t \in 1..LockTasks, u \in FreshChild(Threads(LockTasks)) : CallbackCopyFile(t, u)
    \/ \E t \in 1..LockTasks : unit[t] = "cb_copy" /\ ThreadableTaskInit(cb_child[t], TRUE)
    \/ \E u \in Threads(LockTasks) : ThreadableTaskAssign(u)
    \/ \E u \in Threads(LockTasks) : CopyFileBegin(u)
    \/ \E u \in Threads(LockTasks) : CopyFileRegister(u)
    \/ \E t \in 1..LockTasks : CallbackCopyReturn(t)
    \/ \E u \in Threads(LockTasks) : CallableReturns(u)
    \/ \E u \in Threads(LockTasks) : WrapperCallback(u)
    \/ \E u \in Threads(LockTasks) : WrapperUnregister(u)
    \/ \E w \in Waiters : WaitJoin(w)
    \/ \E w \in Waiters : WaitReturn(w)

\* Every user of the lock at once, and threads that call wait(False) on the
\* tasks returned.
NextLock ==
    \/ LockSteps
    \/ \E w \in Waiters, t \in Tasks : WaitCall(w, t, FALSE)

SpecLock == Init /\ [][NextLock]_vars

\* ThreadableTask tasks and the threads waiting for them, under a scheduler
\* that lets every thread run that can: the worker thread once its callable
\* has ended, the thread that holds the lock in copy_file, and a waiting
\* thread whose join can return. Nothing makes a callable end.
NextFair ==
    \/ ThreadNext(Threads(FairTasks), FairTasks, BOOLEAN)
    \/ WaitNext(Waiters)

Fairness ==
    /\ \A t \in Threads(FairTasks) :
          /\ WF_vars(WrapperCallback(t))
          /\ WF_vars(WrapperUnregister(t))
          /\ WF_vars(WrapperNoCallback(t))
          /\ WF_vars(CopyFileRegister(t))
    /\ \A w \in Waiters : WF_vars(WaitJoin(w)) /\ WF_vars(WaitReturn(w))

SpecFair == Init /\ [][NextFair]_vars /\ Fairness

\* ------------------------------------------------------------------ properties

TimeoutError == <<"TimeoutError", "timeout">>

\* The task object can be asked is_running(), error() and wait(): its reader
\* or thread handle is assigned.
Observable(t) == IF t \in STasks THEN unit[t] # "none" ELSE thread_assigned[t]

Stopped(t) == Observable(t) /\ ~is_running(t)

\* The finished handler of StreamReadersExec task t has unregistered it.
HandlerRan(t) == unit[t] \in {"callback", "cb_tasks", "cb_copy", "dead"}

\* C1: once the finished handlers of all the StreamReadersExec tasks started
\* on the session have run, tasks() is empty, in every interleaving of the
\* constructors and the handlers; and no registry call ever raises.
C1_AllFinishedRegistryEmpty ==
    /\ uncaught = {}
    /\ (\A t \in STasks : cpc[t] # "new" => HandlerRan(t)) => tasks_snapshot = <<>>

C1_Witness ==
    /\ \A t \in 1..ExecTasks : unit[t] = "dead"
    /\ tasks_snapshot = <<>>

\* C2: a copy_file task whose callable has ended and whose finished callback
\* has run is absent from tasks() once copy_file has returned: a finished
\* copy task does not stay registered.
C2_FinishedCopyUnregistered ==
    \A t \in BTasks :
        (has_callback[t] /\ cpc[t] = "done" /\ unit[t] = "dead")
            => ~Contains(tasks_snapshot, t)

\* The execution unit of task t has started and its finished handler or
\* finished callback has not begun.
Working(t) ==
    IF t \in STasks THEN unit[t] = "running"
    ELSE has_callback[t] /\ unit[t] \in {"running", "finished"}

\* C3: for execute() and for copy_file(), whenever the task's execution unit
\* is started and not yet finished the task is in the session's registry.
C3_WorkingIsRegistered ==
    \A t \in Tasks : Working(t) => Contains(tasks_snapshot, t)

\* C4: a StreamReadersExec task whose timeout handler has fired, once it has
\* stopped, has timed_out() true and error() of the timeout kind, and
\* wait(raise_if_error=True) raises it, whatever the expected and the captured
\* exit codes.
C4_TimeoutFirst ==
    \A t \in STasks :
        (timeout_fired[t] /\ Stopped(t)) =>
            /\ timed_out[t]
            /\ error(t) = TimeoutError
            /\ outcomes[t][TRUE] \subseteq {<<"raise", TimeoutError>>}

C4_Witness ==
    \E t \in STasks :
        /\ timeout_fired[t] /\ Stopped(t)
        /\ expected_exit_code[t] # None
        /\ exit_code[t] = expected_exit_code[t]
        /\ outcomes[t][TRUE] # {}

\* The text of a captured exit code.
CodeText(v) ==
    CASE v = None -> "None"
      [] v = <<0>> -> "0"
      [] v = <<1>> -> "1"

\* The error of a stopped command that did not time out.
ExitCodeReference(expected, captured) ==
    IF expected = None THEN None
    ELSE IF captured = expected THEN None
    ELSE <<"ExitCodeError", "bad exit code: Got " \o CodeText(captured)>>

\* C5: for a stopped StreamReadersExec task without timeout, error() is the
\* exit-code-mismatch error carrying the captured code when an expected code
\* was given and the captured one differs (or was never set), else None.
C5_ExitCodeError ==
    \A t \in STasks :
        (Stopped(t) /\ ~timeout_fired[t]) =>
            error(t) = ExitCodeReference(expected_exit_code[t], exit_code[t])

C5_Witness ==
    \E t \in STasks :
        /\ Stopped(t) /\ ~timeout_fired[t]
        /\ expected_exit_code[t] = <<0>>
        /\ exit_code[t] = <<1>>
        /\ error(t) = <<"ExitCodeError", "bad exit code: Got 1">>

\* C6: while a StreamReadersExec task is running error() is None, also when
\* the timed-out flag is set or a wrong exit code is captured.
C6_RunningNoError ==
    \A t \in STasks : (Observable(t) /\ is_running(t)) => error(t) = None

C6_Witness ==
    \E t \in STasks :
        /\ Observable(t) /\ is_running(t)
        /\ timed_out[t]
        /\ expected_exit_code[t] # None
        /\ exit_code[t] # None
        /\ exit_code[t] # expected_exit_code[t]

\* C7: while the worker thread of a ThreadableTask is alive, error() is None.
C7_AliveNoError ==
    \A t \in BTasks : is_running(t) => error(t) = None

\* The callable of ThreadableTask t has returned or raised.
CallableEnded(t) == unit[t] \in {"finished", "unregister", "dead"}

C8_RunningUntilEnd ==
    \A t \in BTasks : (cpc[t] # "new" /\ ~CallableEnded(t)) => is_running(t)

C8_OneWay ==
    \A t \in Tasks :
        Stopped(t) => /\ Stopped(t)'
                      /\ error(t)' = error(t)

\* C8: a ThreadableTask is running from its construction until its callable
\* has ended; and a task of either class that has stopped stays stopped and
\* keeps the error() it had.
C8_Completion == [](C8_RunningUntilEnd) /\ [][C8_OneWay]_vars

\* A stopped ThreadableTask whose error() has been raised by a wait(True)
\* that was called while the task was running.
C8_Witness ==
    \E t \in BTasks :
        /\ Stopped(t)
        /\ error(t) = <<"IOError", "disk">>
        /\ outcomes[t][TRUE] = {<<"raise", error(t)>>}

C9_SameOutcome ==
    \A t \in Tasks, r \in BOOLEAN : Cardinality(outcomes[t][r]) <= 1

C9_NoBlock ==
    \A w \in Waiters :
        (waiter[w].pc = "idle" /\ waiter'[w].pc # "idle"
            /\ ~is_running(waiter'[w].task)) => waiter'[w].pc = "check"

\* C9: the wait() calls made on one task with one raise_if_error all have the
\* same outcome (the same return value or the same error raised), and a
\* wait() called on a stopped task does not join.
C9_WaitIdempotent == [](C9_SameOutcome) /\ [][C9_NoBlock]_vars

\* A second wait(True) is about to raise what the first one raised.
C9_Witness ==
    \E w \in Waiters :
        /\ waiter[w].pc = "check"
        /\ waiter[w].flag
        /\ waiter[w].task \in BTasks
        /\ outcomes[waiter[w].task][TRUE] = {<<"raise", <<"ValueError", "boom">>>>}
        /\ wait_outcome(waiter[w].task, TRUE) \in outcomes[waiter[w].task][TRUE]

\* C10: the finished callback of a ThreadableTask is invoked once, by the
\* worker thread, after the callable has returned or raised: never before
\* the callable ends, never twice, and always before the thread ends.
C10_CallbackOnce ==
    \A t \in BTasks :
        /\ Len(callback_calls[t]) <= 1
        /\ \A i \in 1..Len(callback_calls[t]) : callback_calls[t][i] = Unit(t)
        /\ callback_calls[t] # <<>> => (has_callback[t] /\ CallableEnded(t))
        /\ (has_callback[t] /\ unit[t] = "dead") => Len(callback_calls[t]) = 1

C10_Witness ==
    \E t \in BTasks, u \in BTasks :
        /\ has_callback[t] /\ unit[t] = "dead" /\ exception[t] # None
        /\ has_callback[u] /\ unit[u] = "dead" /\ exception[u] = None
        /\ Len(callback_calls[t]) = 1 /\ Len(callback_calls[u]) = 1

\* The finished callback of task t has begun: the finished handler of a
\* StreamReadersExec has been entered, the wrapper of a ThreadableTask has
\* invoked finished_callback.
CallbackBegun(t) ==
    IF t \in STasks THEN unit[t] \in {"unregister", "dead"} \/ HandlerRan(t)
    ELSE has_callback[t] /\ unit[t] \in {"unregister", "dead"}

C11_Final ==
    /\ \A t \in BTasks :
          CallbackBegun(t) =>
              exception[t] = IF callable_error[t] = None THEN None
                             ELSE exc_info(callable_error[t])
    /\ \A t \in STasks :
          CallbackBegun(t) => /\ timed_out[t] = timeout_fired[t]
                              /\ exit_code[t] = reported_code[t]

C11_Stable ==
    /\ \A t \in BTasks : CallbackBegun(t) => exception'[t] = exception[t]
    /\ \A t \in STasks :
          CallbackBegun(t) => /\ timed_out'[t] = timed_out[t]
                              /\ exit_code'[t] = exit_code[t]

\* C11: when the finished callback of a task begins, its terminal state is
\* final: the error slot of a ThreadableTask holds what the callable raised,
\* the timed-out flag and the exit code of a StreamReadersExec hold what the
\* reader reported, and none of these fields changes afterwards.
C11_TerminalStateFinal == [](C11_Final) /\ [][C11_Stable]_vars

\* The finished callback of a ThreadableTask whose callable raised is
\* running.
C11_Witness ==
    \E t \in BTasks :
        /\ has_callback[t] /\ unit[t] = "unregister"
        /\ callable_error[t] = <<"ValueError", "boom">>
        /\ exception[t] = exc_info(callable_error[t])

\* Number of entries of l that are t.
Count(l, t) == Cardinality({i \in 1..Len(l) : l[i] = t})

\* l with every entry t left out, the other entries in their order.
Without(l, t) == SelectSeq(l, LAMBDA x : x # t)

\* The step is the critical section of an _unregister_task(t) call.
UnregisterStep(t) ==
    /\ lock' = None
    /\ \/ lock = Unit(t) /\ unit[t] = "unregister"
       \/ lock = Direct /\ direct.task = t

C12_Registry ==
    /\ uncaught = {}
    /\ \A t \in Tasks :
          Count(tasks, t) =
              IF t \in STasks /\ Registered(t) /\ ~HandlerRan(t) /\ t \notin direct.late
              THEN 1 ELSE 0

C12_AbsentNoOp ==
    \A t \in Tasks : UnregisterStep(t) => tasks' = Without(tasks, t)

\* C12: no _unregister_task call raises; a call on a task that is not in the
\* registry (never registered, or already unregistered) leaves the registry
\* as it is, the other entries in their order; and a task is in the registry
\* exactly when it has been registered and no unregister of it has returned
\* since, so register and two unregisters leave what was there before.
C12_UnregisterTolerant == [](C12_Registry) /\ [][C12_AbsentNoOp]_vars

\* Task t has been unregistered by its finished handler and by two direct
\* calls, and the other task is still registered.
C12_Witness ==
    \E t \in STasks, u \in STasks :
        /\ t # u
        /\ unit[t] = "dead"
        /\ direct.calls = 2 /\ direct.late = {t}
        /\ tasks = <<u>>

C13_Snapshot ==
    /\ observer.got => list_value(observer.list) = observer.expect
    /\ \A t \in STasks :
          Count(tasks, t) = IF Registered(t) /\ ~HandlerRan(t) THEN 1 ELSE 0

C13_Frame ==
    /\ observer'.edits # observer.edits => tasks' = tasks
    /\ (observer'.edits = observer.edits /\ observer.pc = "idle" /\ observer.got)
          => list_value(observer.list)' = list_value(observer.list)

\* C13: the list tasks() returns has the entries the registry had inside the
\* lock; register and unregister calls made afterwards do not change it; and
\* appending to it or removing from it changes that list only, never the
\* registry, so that later tasks() calls return the registered tasks.
C13_SnapshotIsCopy == [](C13_Snapshot) /\ [][C13_Frame]_vars

\* The list returned when tasks 1 and 2 were registered has lost its first
\* entry and gained one, and the registry has emptied since.
C13_Witness ==
    /\ observer.got /\ observer.edits = 2
    /\ list_value(observer.list) = <<2, 1>>
    /\ tasks = <<>>

\* What the calls on a ThreadableTask whose callable raised e (None: it
\* returned) must do when raise_if_error is asked.
Surfaced(e) == IF e = None THEN <<"return", None>> ELSE <<"raise", e>>

C15_CheckOnStopped ==
    \A w \in Waiters : waiter[w].pc = "check" => Stopped(waiter[w].task)

C15_ReturnsStopped ==
    \A w \in Waiters, t \in Tasks, r \in BOOLEAN :
        (waiter[w].pc # "idle" /\ waiter'[w].pc = "idle"
            /\ waiter[w].task = t /\ waiter[w].flag = r)
            => /\ ~is_running(t)
               /\ ~is_running(t)'
               /\ wait_outcome(t, r) \in outcomes'[t][r]
               /\ (r /\ error(t) # None) => wait_outcome(t, r) = <<"raise", error(t)>>

\* C15: for both task classes, a wait() call is past its join only when the
\* task has stopped: is_running() is false when the call completes, and the
\* error test of wait(True) is made on the stopped task, so the error the
\* stopped task has is the one raised.
C15_WaitAfterStop == [](C15_CheckOnStopped) /\ [][C15_ReturnsStopped]_vars

\* A wait(True) that had to join a command is about to raise the exit-code
\* error, which error() hides while the command runs.
C15_Witness ==
    \E w \in Waiters :
        /\ waiter[w].pc = "check" /\ waiter[w].flag
        /\ waiter[w].task \in STasks
        /\ outcomes[waiter[w].task][TRUE] = {}
        /\ error(waiter[w].task) = <<"ExitCodeError", "bad exit code: Got 1">>

\* C16: on a StreamReadersExec task wait(False) never raises and returns the
\* exit code last passed to _set_exit_code, None when none was; wait(True)
\* returns that same value when error() of the stopped task is None and
\* raises error() otherwise.
C16_WaitReturnsExitCode ==
    \A t \in STasks :
        /\ outcomes[t][FALSE] \subseteq {<<"return", reported_code[t]>>}
        /\ outcomes[t][TRUE] \subseteq
              {IF error(t) = None THEN <<"return", reported_code[t]>>
               ELSE <<"raise", error(t)>>}
        /\ Stopped(t) =>
              /\ exec_wait(t, FALSE) = <<"return", reported_code[t]>>
              /\ (exec_wait(t, TRUE) = <<"return", reported_code[t]>>)
                    <=> (error(t) = None)

\* After a timeout without exit code, wait(False) has returned None and
\* wait(True) has raised.
C16_Witness ==
    \E t \in STasks :
        /\ Stopped(t) /\ timeout_fired[t]
        /\ reported_code[t] = None
        /\ outcomes[t][FALSE] = {<<"return", None>>}
        /\ outcomes[t][TRUE] = {<<"raise", TimeoutError>>}

\* Another thread can get hold of task t: it is in the list tasks() returns,
\* or it has been passed to its finished callback.
Reachable(t) == Contains(tasks_snapshot, t) \/ callback_calls[t] # <<>>

\* C19: every task that is in a tasks() snapshot or has been passed to its
\* finished callback has its execution-unit handle assigned (_reader of a
\* StreamReadersExec, thread of a ThreadableTask).
C19_ReachableIsConstructed ==
    \A t \in Tasks : Reachable(t) => Observable(t)

C18_Unregistered ==
    \A t \in STasks :
        /\ cb_snapshot[t] # None => ~Contains(cb_snapshot[t][1], t)
        /\ callback_calls[t] # <<>> => ~Contains(tasks, t)
        /\ Count(tasks, t) = IF Registered(t) /\ ~HandlerRan(t) THEN 1 ELSE 0

C18_RaiseKeepsRegistry ==
    uncaught' # uncaught => tasks' = tasks

\* C18: the finished handler of a StreamReadersExec has removed the task from
\* the registry when the user's finished callback is invoked: the tasks()
\* snapshot the callback takes does not contain the task; and when the
\* callback raises the task stays unregistered and the registry holds
\* exactly the other registered, unfinished tasks.
C18_UnregisterBeforeCallback == [](C18_Unregistered) /\ [][C18_RaiseKeepsRegistry]_vars

\* The callback of t saw u registered, the callback of u has raised since,
\* and a third task is still registered.
C18_Witness ==
    \E t \in STasks, u \in STasks, v \in STasks :
        /\ cb_snapshot[t] # None /\ Contains(cb_snapshot[t][1], u)
        /\ <<Unit(u), "CallbackError">> \in uncaught
        /\ tasks = <<v>> /\ unit[v] = "running"

\* The steps that end a `with self._lock:` block.
ReleaseStep ==
    /\ lock' = None
    /\ \/ \E t \in Tasks : ExecuteRegister(t) \/ CopyFileRegister(t)
       \/ \E t \in Tasks : OnFinishedUnregister(t) \/ WrapperUnregister(t)
       \/ \E t \in STasks : CallbackTasksReturn(t)
       \/ TasksReturn
       \/ DirectUnregister

\* Some thread is inside a call or a callback, or a command is running.
Busy ==
    \/ \E t \in Tasks : cpc[t] \notin {"new", "done"}
    \/ \E t \in Tasks : unit[t] \notin {"none", "dead"}
    \/ \E w \in Waiters : waiter[w].pc # "idle"

\* C17: the lock is held only by a thread inside the append, the remove or
\* the copy of the task list, whose next step releases it: never by a thread
\* whose finished callback is running and never by a thread in wait(); and
\* whenever some thread is inside a call or a callback, some thread can take
\* its next step: no state is a deadlock.
C17_LockOnlyInCriticalSection ==
    /\ lock # None =>
          /\ \/ \E t \in Tasks : lock = Caller(t) /\ cpc[t] = "register"
             \/ \E t \in Tasks : lock = Unit(t) /\ unit[t] \in {"unregister", "cb_tasks"}
          /\ ENABLED ReleaseStep
    /\ \A t \in STasks : unit[t] \in {"callback", "cb_copy"} => lock # Unit(t)
    /\ Busy => ENABLED LockSteps

\* A thread is blocked in wait() on a command whose finished callback is
\* inside copy_file(), in the lock, while the copied task's worker waits for
\* the lock to unregister.
C17_Witness ==
    \E t \in STasks, u \in BTasks, w \in Waiters :
        /\ unit[t] = "cb_copy" /\ cb_child[t] = u
        /\ lock = Caller(u)
        /\ unit[u] = "finished"
        /\ waiter[w].pc = "join" /\ waiter[w].task = t

C20_RunningBlocksNothing ==
    \A t \in BTasks :
        unit[t] = "running" => /\ is_running(t)
                               /\ lock # Unit(t)

\* CallableEnded(t) and unit[t] = "dead" are stable, and the task of a wait()
\* call is fixed until the call completes: "infinitely often not (ended and
\* still alive)" is "once ended, eventually dead", and the same for a call
\* under way on an ended task.
C20_Stops ==
    \A t \in Threads(FairTasks) : []<>(CallableEnded(t) => unit[t] = "dead")

C20_WaitsReturn ==
    \A w \in Waiters :
        []<>(waiter[w].pc = "idle" \/ ~CallableEnded(waiter[w].task))

====
